---- MODULE Spec2Model ----
(***************************************************************************)
(* Model of the AI-completion normalisation code of dike-equity-ai: the    *)
(* extraction cascade, JSON parsing, required-field validation and the     *)
(* fallback records of the /api/analyze handlers (server.js, both          *)
(* variants, and analyzeHandler) and of the client's analyzeAssignment.    *)
(*                                                                         *)
(* A text is a sequence of lexemes (tokens).  Every token stands for a     *)
(* fixed run of characters, so the regular expressions and JSON.parse of   *)
(* the source act on token sequences exactly as they act on characters.    *)
(***************************************************************************)
EXTENDS Integers, Sequences, FiniteSets, TLC

VARIABLES aiResponse, handler, response, env, requests, client, view, app, build

vars == <<aiResponse, handler, response, env, requests, client, view, app, build>>

(***************************************************************************)
(* Lexemes.  k is the kind, s the content of a string literal, n the value *)
(* of a number literal or the character count of a prose run.              *)
(***************************************************************************)
Tok(k) == [k |-> k, s |-> "", n |-> 0]
Fence == Tok("fence")      \* ```
JsonTag == Tok("json")     \* the letters json
NL == Tok("nl")            \* \n
SP == Tok("sp")            \* one blank
LB == Tok("lb")            \* {
RB == Tok("rb")            \* }
LK == Tok("lk")            \* [
RK == Tok("rk")            \* ]
Colon == Tok("colon")
Comma == Tok("comma")
NullLit == Tok("null")
StrLit(s) == [k |-> "str", s |-> s, n |-> 0]      \* "s", quotes included
\* "s" with one of its characters written as a \uXXXX escape
EscStrLit(s) == [k |-> "estr", s |-> s, n |-> 0]
NumLit(n) == [k |-> "num", s |-> "", n |-> n]
Word(n) == [k |-> "word", s |-> "", n |-> n]      \* n letters of prose

Min(a, b) == IF a < b THEN a ELSE b

SetMin(S) == CHOOSE x \in S : \A y \in S : x <= y

SetMax(S) == CHOOSE x \in S : \A y \in S : x >= y

\* Number of decimal digits of a non-negative number literal.
Digits(n) == IF n < 10 THEN 1 ELSE IF n < 100 THEN 2 ELSE 3

\* Number of characters a token stands for.
TokChars(t) ==
    CASE t.k = "fence" -> 3
      [] t.k = "json" -> 4
      [] t.k = "null" -> 4
      [] t.k = "str" -> Len(t.s) + 2
      [] t.k = "estr" -> Len(t.s) + 7
      [] t.k = "num" -> Digits(t.n)
      [] t.k = "word" -> t.n
      [] t.k = "part" -> t.n
      [] t.k = "dots" -> 3
      [] OTHER -> 1

RECURSIVE CharLen(_)
\* String.prototype.length of a text.
CharLen(text) == IF text = <<>> THEN 0 ELSE TokChars(Head(text)) + CharLen(Tail(text))

IsWs(t) == t.k \in {"nl", "sp"}

RECURSIVE TrimLeft(_)
TrimLeft(text) ==
    IF text # <<>> /\ IsWs(Head(text)) THEN TrimLeft(Tail(text)) ELSE text

RECURSIVE TrimRight(_)
TrimRight(text) ==
    IF text # <<>> /\ IsWs(text[Len(text)])
    THEN TrimRight(SubSeq(text, 1, Len(text) - 1))
    ELSE text

\* String.prototype.trim
Trim(text) == TrimRight(TrimLeft(text))

\* The three dots the fallback appends to an excerpt.
Ellipsis == Tok("dots")

\* The first c characters of token t, when t is longer than c.
CutTok(t, c) == IF t.k = "word" THEN Word(c) ELSE [k |-> "part", s |-> t.k, n |-> c]

RECURSIVE Substring(_, _)
\* text.substring(0, count): the first count characters, all of them when the
\* text is shorter.
Substring(text, count) ==
    IF text = <<>> \/ count <= 0 THEN <<>>
    ELSE IF TokChars(Head(text)) <= count
         THEN <<Head(text)>> \o Substring(Tail(text), count - TokChars(Head(text)))
         ELSE <<CutTok(Head(text), count)>>

(***************************************************************************)
(* JSON values.                                                            *)
(***************************************************************************)
JNull == [t |-> "null"]
JNum(n) == [t |-> "num", n |-> n]
JStr(s) == [t |-> "str", s |-> s]
\* A string value whose content is a text of the model (an excerpt).
JText(x) == [t |-> "text", x |-> x]
JArr(items) == [t |-> "arr", a |-> items]
JObj(m) == [t |-> "obj", m |-> m]
NoFields == [x \in {} |-> JNull]

ParseFail == [ok |-> FALSE, v |-> JNull, next |-> 0]
ParseOk(v, next) == [ok |-> TRUE, v |-> v, next |-> next]

RECURSIVE ParseValue(_, _), ParseMembers(_, _, _), ParseElements(_, _, _)
\* One JSON value starting at token i of ts (whitespace already skipped).
ParseValue(ts, i) ==
    IF i > Len(ts) THEN ParseFail
    ELSE CASE ts[i].k = "null" -> ParseOk(JNull, i + 1)
           [] ts[i].k = "num" -> ParseOk(JNum(ts[i].n), i + 1)
           [] ts[i].k \in {"str", "estr"} -> ParseOk(JStr(ts[i].s), i + 1)
           [] ts[i].k = "lb" ->
                IF i + 1 <= Len(ts) /\ ts[i + 1].k = "rb"
                THEN ParseOk(JObj(NoFields), i + 2)
                ELSE ParseMembers(ts, i + 1, NoFields)
           [] ts[i].k = "lk" ->
                IF i + 1 <= Len(ts) /\ ts[i + 1].k = "rk"
                THEN ParseOk(JArr(<<>>), i + 2)
                ELSE ParseElements(ts, i + 1, <<>>)
           [] OTHER -> ParseFail

\* "key" : value, then a comma and more members or the closing brace.  A key
\* that occurs twice keeps its last value.
ParseMembers(ts, i, m) ==
    IF i + 1 > Len(ts) \/ ts[i].k \notin {"str", "estr"} \/ ts[i + 1].k # "colon"
    THEN ParseFail
    ELSE LET val == ParseValue(ts, i + 2)
             m2 == (ts[i].s :> val.v) @@ m
         IN  IF ~val.ok \/ val.next > Len(ts) THEN ParseFail
             ELSE IF ts[val.next].k = "rb" THEN ParseOk(JObj(m2), val.next + 1)
             ELSE IF ts[val.next].k = "comma" THEN ParseMembers(ts, val.next + 1, m2)
             ELSE ParseFail

ParseElements(ts, i, items) ==
    LET val == ParseValue(ts, i)
    IN  IF ~val.ok \/ val.next > Len(ts) THEN ParseFail
        ELSE IF ts[val.next].k = "rk" THEN ParseOk(JArr(Append(items, val.v)), val.next + 1)
        ELSE IF ts[val.next].k = "comma"
             THEN ParseElements(ts, val.next + 1, Append(items, val.v))
        ELSE ParseFail

\* JSON.parse: ok is FALSE where JSON.parse throws a SyntaxError.  Whitespace
\* between tokens is insignificant; the whole text must be one value.  An
\* escape inside a string literal is decoded.
JSONParse(text) ==
    LET ts == SelectSeq(text, LAMBDA t : ~IsWs(t))
        val == ParseValue(ts, 1)
    IN  IF val.ok /\ val.next = Len(ts) + 1 THEN val ELSE ParseFail

(***************************************************************************)
(* The regular expressions of the cascade.  A match is what                *)
(* String.prototype.match returns: found (non-null), whole (match[0]) and  *)
(* cap (match[1]).                                                         *)
(***************************************************************************)
NoMatch == [found |-> FALSE, whole |-> <<>>, cap |-> <<>>]

\* Where the pattern \n?``` matches at position e or later, seen from e.
ClosesAt(text, e) ==
    \/ text[e].k = "fence"
    \/ text[e].k = "nl" /\ e + 1 <= Len(text) /\ text[e + 1].k = "fence"

\* First character of the capture group of a fence opened at i: after the
\* marker, the tag when the pattern has one, and one optional newline.
CaptureStart(text, i, tagged) ==
    LET s0 == IF tagged THEN i + 2 ELSE i + 1
    IN  IF s0 <= Len(text) /\ text[s0].k = "nl" THEN s0 + 1 ELSE s0

Closers(text, i, tagged) ==
    {e \in CaptureStart(text, i, tagged)..Len(text) : ClosesAt(text, e)}

FenceStarts(text, tagged) ==
    {i \in 1..Len(text) :
        /\ text[i].k = "fence"
        /\ tagged => (i + 1 <= Len(text) /\ text[i + 1].k = "json")
        /\ Closers(text, i, tagged) # {}}

\* /```json\n?([\s\S]*?)\n?```/ (tagged) and /```\n?([\s\S]*?)\n?```/: the
\* leftmost opening marker that has a closing one, and the shortest capture.
FenceMatch(text, tagged) ==
    IF FenceStarts(text, tagged) = {} THEN NoMatch
    ELSE LET i == SetMin(FenceStarts(text, tagged))
             s == CaptureStart(text, i, tagged)
             e == SetMin(Closers(text, i, tagged))
             last == IF text[e].k = "fence" THEN e ELSE e + 1
         IN  [found |-> TRUE, whole |-> SubSeq(text, i, last), cap |-> SubSeq(text, s, e - 1)]

IsScoreKey(t) == t.k = "str" /\ t.s = "overallScore"

BraceStarts(text) ==
    {i \in 1..Len(text) :
        /\ text[i].k = "lb"
        /\ \E j \in (i + 1)..Len(text) :
              IsScoreKey(text[j]) /\ \E e \in (j + 1)..Len(text) : text[e].k = "rb"}

\* /\{[\s\S]*"overallScore"[\s\S]*\}/: greedy, from the leftmost { that has
\* "overallScore" and a } after it, through the last } of the text.  The
\* pattern has no capture group: match[1] is undefined (cap is empty).
BraceMatch(text) ==
    IF BraceStarts(text) = {} THEN NoMatch
    ELSE LET i == SetMin(BraceStarts(text))
             e == SetMax({x \in 1..Len(text) : text[x].k = "rb"})
         IN  [found |-> TRUE, whole |-> SubSeq(text, i, e), cap |-> <<>>]

(***************************************************************************)
(* Field access and truthiness of JavaScript values.                       *)
(***************************************************************************)
IsObj(v) == v.t = "obj"

\* v has own property key (v an object literal of JSON).
Has(v, key) == IsObj(v) /\ key \in DOMAIN v.m

Undefined == [t |-> "undefined"]

\* v[key] for a non-null v: undefined when v is no object or lacks the key.
Get(v, key) == IF Has(v, key) THEN v.m[key] ELSE Undefined

\* Boolean(v)
Truthy(v) ==
    CASE v.t = "undefined" -> FALSE
      [] v.t = "null" -> FALSE
      [] v.t = "num" -> v.n # 0
      [] v.t = "str" -> v.s # ""
      [] v.t = "text" -> v.x # <<>>
      [] OTHER -> TRUE

(***************************************************************************)
(* Fallback records.                                                       *)
(***************************************************************************)
FallbackScore == 75
SummaryChars == 200
DimensionScore == 75
SecondFallbackScore == 70
ReformattedChars == 500

\* name and the single recommendation of each fallback dimension, in order.
DimensionTable ==
    << <<"Socioeconomic", "Consider student resources">>,
       <<"Time & Scheduling", "Consider flexibility">>,
       <<"Cultural & Linguistic", "Consider inclusivity">>,
       <<"Accessibility", "Consider accommodations">>,
       <<"Digital Divide", "Consider access">>,
       <<"Learning Support", "Consider guidance">> >>

\* A fallback dimension that takes its score from the other fallback record.
FallbackDimensionOtherScore(row) ==
    JObj(("name" :> JStr(row[1])) @@ ("score" :> JNum(SecondFallbackScore))
         @@ ("issues" :> JArr(<<JStr("Review required")>>))
         @@ ("recommendations" :> JArr(<<JStr(row[2])>>)))

FallbackDimension(row) ==
    JObj(("name" :> JStr(row[1])) @@ ("score" :> JNum(DimensionScore))
         @@ ("issues" :> JArr(<<JStr("Review required")>>))
         @@ ("recommendations" :> JArr(<<JStr(row[2])>>)))

FallbackDimensions ==
    JArr([i \in 1..Len(DimensionTable) |-> FallbackDimension(DimensionTable[i])])

\* A fallback that appends the ellipsis only to a summary it has cut.
DimensionFallbackBare(text) ==
    JObj(("overallScore" :> JNum(FallbackScore))
         @@ ("summary" :> JText(IF CharLen(text) > SummaryChars
                                THEN Substring(text, SummaryChars) \o <<Ellipsis>>
                                ELSE text))
         @@ ("dimensions" :> FallbackDimensions))

\* A fallback that adds an empty recommendations list to the dimension shape.
DimensionFallbackWithRecommendations(text) ==
    JObj(("overallScore" :> JNum(FallbackScore))
         @@ ("summary" :> JText(Substring(text, SummaryChars) \o <<Ellipsis>>))
         @@ ("dimensions" :> FallbackDimensions)
         @@ ("recommendations" :> JArr(<<>>)))

\* The object literal of the first variant's two fallback branches.
DimensionFallback(text) ==
    JObj(("overallScore" :> JNum(FallbackScore))
         @@ ("summary" :> JText(Substring(text, SummaryChars) \o <<Ellipsis>>))
         @@ ("dimensions" :> FallbackDimensions))

\* The object literal of the second variant's catch block.
BarrierFallback(text) ==
    JObj(("overallScore" :> JNum(SecondFallbackScore))
         @@ ("summary" :> JStr("Analysis completed. Review the recommendations below."))
         @@ ("barriers" :> JArr(<<
                JObj(("category" :> JStr("General Review"))
                     @@ ("severity" :> JStr("Medium"))
                     @@ ("issue" :> JStr("Automated analysis encountered formatting issue"))
                     @@ ("impact" :> JStr("Manual review recommended"))
                     @@ ("suggestions" :> JArr(<<JStr("Review assignment for time flexibility"),
                                                 JStr("Consider resource requirements"),
                                                 JStr("Check accessibility needs")>>))
                     @@ ("researchBasis" :> JStr("Universal Design for Learning principles")))>>))
         @@ ("strengths" :> JArr(<<JStr("Assignment submitted for equity review")>>))
         @@ ("recommendations" :> JArr(<<JStr("Provide multiple means of representation"),
                                         JStr("Offer flexible deadlines"),
                                         JStr("Include free alternatives for required materials")>>))
         @@ ("reformattedAssignment" :> JText(Substring(text, ReformattedChars) \o <<Ellipsis>>)))

(***************************************************************************)
(* The normalisers.  A result says which branch produced it (path), which  *)
(* strategy supplied the candidate (0: none) and the value handed on.      *)
(***************************************************************************)
Result(path, strategy, body) == [path |-> path, strategy |-> strategy, body |-> body]

\* if (!analysisData.overallScore || !analysisData.summary) throw ...
\* TRUE where the check lets the value pass.  Reading a property of null
\* throws a TypeError, which the same catch block absorbs.
PassesValidation(v) ==
    /\ v.t # "null"
    /\ Truthy(Get(v, "overallScore"))
    /\ Truthy(Get(v, "summary"))

\* server.js, first variant: jsonMatch = match(tagged) || match(untagged);
\* the parsed capture is sent as it is, the fallback covers no match and a
\* SyntaxError only.
FirstVariantNormalize(text) ==
    LET m1 == FenceMatch(text, TRUE)
        m2 == FenceMatch(text, FALSE)
        strategy == IF m1.found THEN 1 ELSE IF m2.found THEN 2 ELSE 0
        jsonMatch == IF m1.found THEN m1 ELSE m2
        parsed == JSONParse(jsonMatch.cap)
    IN  IF jsonMatch.found
        THEN IF parsed.ok THEN Result("success", strategy, parsed.v)
             ELSE Result("fallback", strategy, DimensionFallback(text))
        ELSE Result("fallback", strategy, DimensionFallback(text))

\* An analyzeHandler that checks the required fields of the parsed block.
AnalyzeHandlerNormalizeValidating(text) ==
    LET m1 == FenceMatch(text, TRUE)
        m2 == FenceMatch(text, FALSE)
        strategy == IF m1.found THEN 1 ELSE IF m2.found THEN 2 ELSE 0
        jsonMatch == IF m1.found THEN m1 ELSE m2
        parsed == JSONParse(jsonMatch.cap)
    IN  IF jsonMatch.found /\ parsed.ok /\ PassesValidation(parsed.v)
        THEN Result("success", strategy, parsed.v)
        ELSE Result("fallback", strategy, DimensionFallback(text))

\* analyzeHandler: the same statements as the first variant of server.js.
AnalyzeHandlerNormalize(text) ==
    LET m1 == FenceMatch(text, TRUE)
        m2 == FenceMatch(text, FALSE)
        strategy == IF m1.found THEN 1 ELSE IF m2.found THEN 2 ELSE 0
        jsonMatch == IF m1.found THEN m1 ELSE m2
        parsed == JSONParse(jsonMatch.cap)
    IN  IF jsonMatch.found
        THEN IF parsed.ok THEN Result("success", strategy, parsed.v)
             ELSE Result("fallback", strategy, DimensionFallback(text))
        ELSE Result("fallback", strategy, DimensionFallback(text))

\* A cascade that looks for any fenced block before the json-tagged one.
SecondVariantStrategyAnyFenceFirst(text) ==
    IF FenceMatch(text, FALSE).found THEN 2
    ELSE IF FenceMatch(text, TRUE).found THEN 1
    ELSE IF BraceMatch(text).found THEN 3
    ELSE 4

\* A cascade without the brace pattern: what no fenced block supplies is
\* parsed whole.
SecondVariantStrategyWithoutBrace(text) ==
    IF FenceMatch(text, TRUE).found THEN 1
    ELSE IF FenceMatch(text, FALSE).found THEN 2
    ELSE 4

\* server.js, second variant: which of the four strategies supplies the
\* candidate.
SecondVariantStrategy(text) ==
    IF FenceMatch(text, TRUE).found THEN 1
    ELSE IF FenceMatch(text, FALSE).found THEN 2
    ELSE IF BraceMatch(text).found THEN 3
    ELSE 4

\* server.js, second variant: jsonText = jsonMatch[1] || jsonMatch[0], or the
\* trimmed response when nothing matched.  An empty capture is falsy.
SecondVariantCandidate(text) ==
    LET strategy == SecondVariantStrategy(text)
        jsonMatch == CASE strategy = 1 -> FenceMatch(text, TRUE)
                       [] strategy = 2 -> FenceMatch(text, FALSE)
                       [] OTHER -> BraceMatch(text)
    IN  IF strategy = 4 THEN Trim(text)
        ELSE IF jsonMatch.cap # <<>> THEN jsonMatch.cap ELSE jsonMatch.whole

\* A cascade that goes on to the brace pattern when its candidate fails.
SecondVariantNormalizeRetrying(text) ==
    LET strategy == SecondVariantStrategy(text)
        parsed == JSONParse(SecondVariantCandidate(text))
        retried == JSONParse(BraceMatch(text).whole)
    IN  IF parsed.ok /\ PassesValidation(parsed.v)
        THEN Result("success", strategy, parsed.v)
        ELSE IF BraceMatch(text).found /\ retried.ok /\ PassesValidation(retried.v)
        THEN Result("success", 3, retried.v)
        ELSE Result("fallback", strategy, BarrierFallback(text))

\* server.js, second variant: cascade, JSON.parse, validation; every throw of
\* the try block ends in the catch block's fallback.
SecondVariantNormalize(text) ==
    LET strategy == SecondVariantStrategy(text)
        parsed == JSONParse(SecondVariantCandidate(text))
    IN  IF parsed.ok /\ PassesValidation(parsed.v)
        THEN Result("success", strategy, parsed.v)
        ELSE Result("fallback", strategy, BarrierFallback(text))

\* analyzeAssignment: the strategy whose match replaces jsonText (4: none,
\* jsonText stays the content).
ClientStrategy(content) ==
    IF FenceMatch(content, TRUE).found THEN 1
    ELSE IF FenceMatch(content, FALSE).found THEN 2
    ELSE IF BraceMatch(content).found THEN 3
    ELSE 4

\* analyzeAssignment: jsonText starts as the content and is replaced by the
\* capture of the first strategy that matches.
ClientCandidate(content) ==
    LET strategy == ClientStrategy(content)
    IN  CASE strategy = 1 -> FenceMatch(content, TRUE).cap
          [] strategy = 2 -> FenceMatch(content, FALSE).cap
          [] strategy = 3 -> BraceMatch(content).whole
          [] OTHER -> content

\* if (!parsedAnalysis.overallScore || !parsedAnalysis.summary) throw ...
ClientPassesValidation(v) ==
    /\ v.t # "null"
    /\ Truthy(Get(v, "overallScore"))
    /\ Truthy(Get(v, "summary"))

\* analyzeAssignment, the branch that parses an OpenRouter completion:
\* JSON.parse(jsonText.trim()) and validation; a throw sets the error message
\* and leaves analysis null.
ClientParse(content) ==
    LET strategy == ClientStrategy(content)
        parsed == JSONParse(Trim(ClientCandidate(content)))
    IN  IF parsed.ok /\ ClientPassesValidation(parsed.v)
        THEN Result("success", strategy, parsed.v)
        ELSE Result("parseError", strategy, JNull)

(***************************************************************************)
(* Completions the provider can send.  A completion is prose, a candidate  *)
(* text, possibly inside a fenced block, and prose again; short texts over *)
(* the markers are added whole.                                            *)
(***************************************************************************)
ScoreValue == 82       \* the score of a well-formed completion
ShortProse == 12       \* characters of a short prose run
LongProse == 150       \* characters of a long prose run
MaxFree == 3           \* tokens of the texts enumerated whole

RECURSIVE Join(_)
\* The members of an object text, separated by commas.
Join(members) ==
    IF members = <<>> THEN <<>>
    ELSE IF Len(members) = 1 THEN members[1]
    ELSE members[1] \o <<Comma, SP>> \o Join(Tail(members))

\* "key": value, or nothing when the completion leaves the key out.
Member(key, value) == IF value = <<>> THEN <<>> ELSE << <<StrLit(key), Colon, SP>> \o value >>

ObjectText(members) == <<LB>> \o Join(members) \o <<RB>>

ScoreTexts == {<<>>, <<NumLit(0)>>, <<NumLit(ScoreValue)>>, <<StrLit("82")>>, <<NullLit>>}

SummaryTexts == {<<>>, <<StrLit("")>>, <<StrLit("Good design")>>, <<NullLit>>}

BarrierText ==
    <<LK>> \o ObjectText(Member("category", <<StrLit("Socioeconomic")>>)
                         \o Member("severity", <<StrLit("High")>>)) \o <<RK>>

ExtraMembers ==
    { <<>>,
      Member("barriers", BarrierText) \o Member("strengths", <<LK, StrLit("Flexible deadline"), RK>>)
          \o Member("recommendations", <<LK, StrLit("Add captions"), RK>>),
      Member("dimensions", <<LK, RK>>),
      Member("barriers", <<LK, RK>>) \o Member("dimensions", <<LK, RK>>) }

ObjectBodies ==
    { ObjectText(Member("overallScore", sc) \o Member("summary", su) \o ex) :
        sc \in ScoreTexts, su \in SummaryTexts, ex \in ExtraMembers }

OtherBodies ==
    { <<>>, <<NullLit>>, <<NumLit(5)>>, <<LK, RK>>, <<Word(ShortProse)>>,
      <<LB, StrLit("overallScore"), Colon, NumLit(ScoreValue), Comma>>,
      <<LB, StrLit("overallScore"), Colon, NumLit(ScoreValue), Comma,
        StrLit("summary"), Colon, StrLit("cut off") >>,
      <<LB, EscStrLit("overallScore"), Colon, NumLit(ScoreValue), Comma,
        StrLit("summary"), Colon, StrLit("Good design"), RB>> }

Bodies == ObjectBodies \cup OtherBodies

GoodBody ==
    ObjectText(Member("overallScore", <<NumLit(ScoreValue)>>) \o Member("summary", <<StrLit("Good design")>>))

Wrap(kind, body) ==
    CASE kind = "json" -> <<Fence, JsonTag, NL>> \o body \o <<NL, Fence>>
      [] kind = "jsonTight" -> <<Fence, JsonTag>> \o body \o <<Fence>>
      [] kind = "plain" -> <<Fence, NL>> \o body \o <<NL, Fence>>
      [] OTHER -> body

Wraps == {"json", "jsonTight", "plain", "none"}

Prefixes ==
    { <<>>, <<NL>>, <<Word(ShortProse), SP>>, <<Word(LongProse), SP, Word(LongProse), NL>>,
      <<Word(ShortProse), SP, LB, Word(ShortProse), RB, SP>>,
      <<Fence, NL, Word(ShortProse), NL, Fence, NL>> }

Suffixes ==
    { <<>>, <<SP, Word(ShortProse)>>, <<SP, LB, Word(ShortProse), RB>>,
      <<NL>> \o Wrap("json", GoodBody), <<NL>> \o Wrap("plain", GoodBody) }

FreeAlphabet == {Fence, JsonTag, NL, LB, RB, StrLit("overallScore"), Word(ShortProse)}

FreeTexts == UNION { [1..n -> FreeAlphabet] : n \in 0..MaxFree }

Completions ==
    { pre \o Wrap(w, b) \o post : pre \in Prefixes, w \in Wraps, b \in Bodies, post \in Suffixes }
    \cup FreeTexts

(***************************************************************************)
(* The handlers, from the point where the completion text is at hand.      *)
(***************************************************************************)
NoResponse == [status |-> 0, path |-> "none", strategy |-> 0, body |-> JNull]

\* The client before a response has arrived: analysis and error are unset,
\* loading is false, no view action has run.
NoClient == [analysis |-> JNull, error |-> "", did |-> "none", threw |-> FALSE]

\* The results view before an analysis is on screen: no barrier, no persona
\* selected (useState(null)), nothing rendered.
NoScreen == [colors |-> <<>>, printClasses |-> <<>>, pdfClasses |-> <<>>,
             badges |-> <<>>, icons |-> <<>>, warning |-> FALSE]

NoView == [barriers |-> <<>>, selectedPersona |-> "null", shown |-> FALSE,
           screen |-> NoScreen]

\* The state of the App component after its first render (useState initial
\* values), with the runs of its async handlers that await an answer:
\* inFlight and altInFlight count the pending analyzeAssignment and
\* generateAlternatives runs, chatRuns holds what each pending
\* sendChatMessage run closed over, chatSent lists the questions sent.
NoApp ==
    [assignmentText |-> <<>>, analysis |-> JNull, loading |-> FALSE, error |-> "",
     inFlight |-> 0,
     showAIChat |-> FALSE, chatMessages |-> <<>>, chatInput |-> "", chatLoading |-> FALSE,
     chatRuns |-> <<>>, chatSent |-> <<>>,
     showAlternatives |-> FALSE, alternatives |-> JNull, alternativesLoading |-> FALSE,
     altInFlight |-> 0]

\* The build script before it runs: no method tried, not exited.
NoBuild == [outcomes |-> <<>>, index |-> 1, tried |-> <<>>, exited |-> FALSE, exitCode |-> 0]

\* An answer stamped with the number of requests answered before it.
RespondStamped(status, result) ==
    [status |-> status, path |-> result.path, strategy |-> result.strategy,
     body |-> IF IsObj(result.body)
              THEN JObj(("answered" :> JNum(Cardinality({r \in DOMAIN requests :
                                                           requests[r].pc = "done"})))
                        @@ result.body.m)
              ELSE result.body]

Respond(status, result) ==
    [status |-> status, path |-> result.path, strategy |-> result.strategy, body |-> result.body]

Init ==
    /\ aiResponse \in Completions
    /\ handler = "none"
    /\ response = NoResponse
    /\ env = {}
    /\ requests = <<>>
    /\ client = NoClient
    /\ view = NoView
    /\ app = NoApp
    /\ build = NoBuild

\* server.js, first variant: res.json(analysisData)
FirstVariant ==
    /\ handler = "none"
    /\ handler' = "first"
    /\ response' = Respond(200, FirstVariantNormalize(aiResponse))
    /\ UNCHANGED <<aiResponse, env, requests, client, view, app, build>>

\* analyzeHandler: res.json(analysisData)
AnalyzeHandler ==
    /\ handler = "none"
    /\ handler' = "analyzeHandler"
    /\ response' = Respond(200, AnalyzeHandlerNormalize(aiResponse))
    /\ UNCHANGED <<aiResponse, env, requests, client, view, app, build>>

\* The body of the second variant's 500 answer to a completion without content.
MissingContentError ==
    JObj(("error" :> JStr("Invalid API response structure"))
         @@ ("details" :> JStr("Missing message content"))
         @@ ("firstChoice" :> JObj("message" :> JObj("content" :> JStr("")))))

\* A second variant that runs the cascade without the content check.
SecondVariantRespondUnchecked(text) == Respond(200, SecondVariantNormalize(text))

\* server.js, second variant: an empty content string is falsy and is answered
\* with status 500 before the cascade; otherwise res.json(analysisData).
SecondVariantRespond(text) ==
    IF text = <<>>
    THEN Respond(500, Result("missingContent", 0, MissingContentError))
    ELSE Respond(200, SecondVariantNormalize(text))

SecondVariant ==
    /\ handler = "none"
    /\ handler' = "second"
    /\ response' = SecondVariantRespond(aiResponse)
    /\ UNCHANGED <<aiResponse, env, requests, client, view, app, build>>

\* analyzeAssignment on a raw completion: setAnalysis(parsedAnalysis), or
\* setError and analysis null.
AnalyzeAssignment ==
    /\ handler = "none"
    /\ handler' = "client"
    /\ response' = Respond(0, ClientParse(aiResponse))
    /\ UNCHANGED <<aiResponse, env, requests, client, view, app, build>>

Next == FirstVariant \/ AnalyzeHandler \/ SecondVariant \/ AnalyzeAssignment

Spec == Init /\ [][Next]_vars

(***************************************************************************)
(* The request flow of the handlers: the checks on the request, the call   *)
(* of the provider and the answer to what the provider sends.  A handler   *)
(* is suspended while it awaits the provider (fetch) and while it awaits   *)
(* the body (response.text(), response.json()); other requests run then.   *)
(***************************************************************************)
Variants == {"first", "second", "analyzeHandler", "vercel", "netlify"}

\* express registers the handlers of server.js with app.post; the serverless
\* handlers see every method.
MethodsOf(variant) ==
    IF variant \in {"vercel", "netlify"} THEN {"OPTIONS", "GET", "POST"} ELSE {"POST"}

AssignmentTexts == {Undefined, JStr(""), JStr("Write a five page essay")}

CourseTypes == {Undefined, JStr("general")}

\* The variables of process.env the handlers read.
Environments == SUBSET {"OPENROUTER_API_KEY", "VITE_OPENROUTER_API_KEY"}

\* response.ok
Ok(status) == status >= 200 /\ status <= 299

UpstreamStatuses == {401, 429, 500}

NoUpstream == [kind |-> "none", status |-> 0, shape |-> "none", content |-> <<>>]

\* fetch rejects: the provider cannot be reached.
ConnectFail == [kind |-> "connectFail", status |-> 0, shape |-> "none", content |-> <<>>]

\* fetch resolves with a status and a body of some shape.
Answer(status, shape, content) ==
    [kind |-> "answer", status |-> status, shape |-> shape, content |-> content]

UpstreamCompletions ==
    { <<>>, <<Word(ShortProse)>>, GoodBody, Wrap("json", GoodBody),
      Wrap("plain", ObjectText(Member("overallScore", <<NumLit(ScoreValue)>>))),
      <<Word(LongProse), SP>> \o GoodBody \o <<SP, LB, Word(ShortProse), RB>> }

\* Bodies of a 200 answer that hold no completion text: the body cannot be
\* read (response.text() or response.json() rejects), is not JSON, has no
\* choices, has a first choice without message content, or has a content
\* that is a number.
BrokenShapes == {"unreadable", "notJson", "noChoices", "noContent", "numberContent"}

Upstreams ==
    {ConnectFail}
    \cup {Answer(s, "error", <<>>) : s \in UpstreamStatuses}
    \cup {Answer(200, shape, <<>>) : shape \in BrokenShapes}
    \cup {Answer(200, "completion", c) : c \in UpstreamCompletions}

ErrorBody(message) == JObj("error" :> JStr(message))

ErrorDetails(message, details) ==
    JObj(("error" :> JStr(message)) @@ ("details" :> JStr(details)))

ErrorAnswer(status, path, body) == Respond(status, Result(path, 0, body))

\* The OpenRouter envelope the serverless handlers pass on unchanged.
Envelope(u) ==
    CASE u.shape = "completion" ->
            JObj("choices" :> JArr(<<JObj("message" :> JObj("content" :> JText(u.content)))>>))
      [] u.shape = "noContent" ->
            JObj("choices" :> JArr(<<JObj("message" :> JObj(NoFields))>>))
      [] u.shape = "numberContent" ->
            JObj("choices" :> JArr(<<JObj("message" :> JObj("content" :> JNum(5)))>>))
      [] OTHER -> JObj(NoFields)

\* The checks before the provider is called.  NoResponse: the handler goes on
\* to the call.
FirstVariantChecks(q, e) ==
    IF ~Truthy(q.assignmentText) \/ ~Truthy(q.courseType)
    THEN ErrorAnswer(400, "badRequest",
                     ErrorBody("Missing required fields: assignmentText, courseType"))
    ELSE IF e \cap {"OPENROUTER_API_KEY", "VITE_OPENROUTER_API_KEY"} = {}
    THEN ErrorAnswer(500, "noApiKey", ErrorBody("API key not configured"))
    ELSE NoResponse

SecondVariantChecks(q, e) ==
    IF ~Truthy(q.assignmentText)
    THEN ErrorAnswer(400, "badRequest", ErrorBody("Missing required field: assignmentText"))
    ELSE IF e \cap {"OPENROUTER_API_KEY", "VITE_OPENROUTER_API_KEY"} = {}
    THEN ErrorAnswer(500, "noApiKey", ErrorBody("API key not configured"))
    ELSE NoResponse

AnalyzeHandlerChecks(q, e) ==
    IF ~Truthy(q.assignmentText) \/ ~Truthy(q.courseType)
    THEN ErrorAnswer(400, "badRequest",
                     ErrorBody("Missing required fields: assignmentText, courseType"))
    ELSE IF "VITE_OPENROUTER_API_KEY" \notin e
    THEN ErrorAnswer(500, "noApiKey", ErrorBody("API key not configured"))
    ELSE NoResponse

\* The Vercel handler never looks for the key: the Authorization header is
\* built from process.env.VITE_OPENROUTER_API_KEY, set or not.
VercelChecks(q, e) ==
    IF q.method = "OPTIONS" THEN ErrorAnswer(200, "preflight", Undefined)
    ELSE IF q.method # "POST"
    THEN ErrorAnswer(405, "methodNotAllowed", ErrorBody("Method not allowed"))
    ELSE IF ~Truthy(q.assignmentText)
    THEN ErrorAnswer(400, "badRequest", ErrorBody("Assignment text is required"))
    ELSE NoResponse

NetlifyChecks(q, e) ==
    IF q.method = "OPTIONS" THEN ErrorAnswer(200, "preflight", Undefined)
    ELSE IF q.method # "POST"
    THEN ErrorAnswer(405, "methodNotAllowed", ErrorBody("Method not allowed"))
    ELSE IF ~Truthy(q.assignmentText) \/ ~Truthy(q.courseType)
    THEN ErrorAnswer(400, "badRequest",
                     ErrorBody("Missing required fields: assignmentText, courseType"))
    ELSE IF "VITE_OPENROUTER_API_KEY" \notin e
    THEN ErrorAnswer(500, "noApiKey", ErrorBody("API key not configured"))
    ELSE NoResponse

Checks(q, e) ==
    CASE q.variant = "first" -> FirstVariantChecks(q, e)
      [] q.variant = "second" -> SecondVariantChecks(q, e)
      [] q.variant = "analyzeHandler" -> AnalyzeHandlerChecks(q, e)
      [] q.variant = "vercel" -> VercelChecks(q, e)
      [] OTHER -> NetlifyChecks(q, e)

\* The record the second variant sends, with status 200, when the provider
\* answers 429.
RateLimitRecord ==
    JObj(("overallScore" :> JNum(SecondFallbackScore))
         @@ ("summary" :> JStr("API rate limit reached. Please wait a moment and try again."))
         @@ ("barriers" :> JArr(<<
                JObj(("category" :> JStr("General Review"))
                     @@ ("severity" :> JStr("Medium"))
                     @@ ("issue" :> JStr("Analysis temporarily unavailable"))
                     @@ ("impact" :> JStr("Rate limit exceeded"))
                     @@ ("suggestions" :> JArr(<<JStr("Try again in a few moments")>>))
                     @@ ("researchBasis" :> JStr("N/A")))>>))
         @@ ("strengths" :> JArr(<<JStr("Assignment submitted for review")>>))
         @@ ("recommendations" :> JArr(<<JStr("Please try again shortly")>>))
         @@ ("reformattedAssignment" :> JStr("Please try again for improved version")))

UpstreamErrorBody(status) ==
    JObj(("error" :> JStr("API request failed")) @@ ("status" :> JNum(status))
         @@ ("details" :> JStr("responseText")))

\* A second variant that passes every provider status on.
SecondVariantNotOkPassedOn(status) ==
    ErrorAnswer(status, "upstreamError", UpstreamErrorBody(status))

\* server.js, second variant, if (!response.ok): 429 is answered with a
\* record and status 200, every other status is passed on with an error.
SecondVariantNotOk(status) ==
    IF status = 429
    THEN Respond(200, Result("rateLimit", 0, RateLimitRecord))
    ELSE ErrorAnswer(status, "upstreamError", UpstreamErrorBody(status))

\* What each handler answers to what the provider sent.
FirstVariantAnswer(u) ==
    IF u.kind = "connectFail"
    THEN ErrorAnswer(500, "serverError", ErrorDetails("Internal server error", "fetch failed"))
    ELSE IF ~Ok(u.status)
    THEN ErrorAnswer(500, "serverError",
                     ErrorDetails("Internal server error", "API request failed"))
    ELSE IF u.shape # "completion"
    THEN ErrorAnswer(500, "serverError", ErrorDetails("Internal server error", u.shape))
    ELSE Respond(200, FirstVariantNormalize(u.content))

\* A second variant that reads data.choices[0].message.content as the first
\* variant does, without the checks: a body without it throws into the outer
\* catch block.
SecondVariantAnswerUnguarded(u) ==
    IF u.kind = "connectFail"
    THEN ErrorAnswer(500, "connectError",
                     ErrorDetails("Failed to connect to AI service", "fetch failed"))
    ELSE IF ~Ok(u.status) THEN SecondVariantNotOk(u.status)
    ELSE IF u.shape # "completion"
    THEN ErrorAnswer(500, "serverError", ErrorDetails("Internal server error", u.shape))
    ELSE Respond(200, SecondVariantNormalize(u.content))

SecondVariantAnswer(u) ==
    IF u.kind = "connectFail"
    THEN ErrorAnswer(500, "connectError",
                     ErrorDetails("Failed to connect to AI service", "fetch failed"))
    ELSE IF u.shape = "unreadable"
    THEN ErrorAnswer(500, "badUpstream",
                     ErrorDetails("Failed to read API response", "textError.message"))
    ELSE IF ~Ok(u.status) THEN SecondVariantNotOk(u.status)
    ELSE IF u.shape = "notJson"
    THEN ErrorAnswer(500, "badUpstream",
                     ErrorDetails("Failed to parse API response", "parseError.message"))
    ELSE IF u.shape = "noChoices"
    THEN ErrorAnswer(500, "badUpstream",
                     ErrorDetails("Invalid API response structure", "Missing choices array"))
    ELSE IF u.shape = "noContent"
    THEN Respond(500, Result("missingContent", 0,
                 [MissingContentError EXCEPT !.m["firstChoice"] =
                                                 JObj("message" :> JObj(NoFields))]))
    ELSE IF u.shape = "numberContent"
    THEN ErrorAnswer(500, "serverError",
                     ErrorDetails("Internal server error", "aiResponse.substring is not a function"))
    ELSE SecondVariantRespond(u.content)

AnalyzeHandlerAnswer(u) ==
    IF u.kind = "connectFail" \/ ~Ok(u.status) \/ u.shape # "completion"
    THEN ErrorAnswer(500, "serverError", ErrorBody("Internal server error"))
    ELSE Respond(200, AnalyzeHandlerNormalize(u.content))

VercelAnswer(u) ==
    IF u.kind = "connectFail"
    THEN ErrorAnswer(500, "serverError", ErrorBody("Internal server error"))
    ELSE IF ~Ok(u.status)
    THEN ErrorAnswer(u.status, "upstreamError", ErrorBody("API Error"))
    ELSE IF u.shape \in {"unreadable", "notJson"}
    THEN ErrorAnswer(500, "serverError", ErrorBody("Internal server error"))
    ELSE Respond(200, Result("passedOn", 0, Envelope(u)))

NetlifyAnswer(u) ==
    IF u.kind = "connectFail" \/ ~Ok(u.status) \/ u.shape \in {"unreadable", "notJson"}
    THEN ErrorAnswer(500, "serverError", ErrorBody("Internal server error"))
    ELSE Respond(200, Result("passedOn", 0, Envelope(u)))

AnswerTo(variant, u) ==
    CASE variant = "first" -> FirstVariantAnswer(u)
      [] variant = "second" -> SecondVariantAnswer(u)
      [] variant = "analyzeHandler" -> AnalyzeHandlerAnswer(u)
      [] variant = "vercel" -> VercelAnswer(u)
      [] OTHER -> NetlifyAnswer(u)

RequestIds == {"r1", "r2"}

NoRequest ==
    [pc |-> "idle", variant |-> "none", method |-> "POST", assignmentText |-> Undefined,
     courseType |-> Undefined, calls |-> 0, upstream |-> NoUpstream, response |-> NoResponse,
     sent |-> 0]

RequestInit ==
    /\ aiResponse = <<>>
    /\ handler = "none"
    /\ response = NoResponse
    /\ env \in Environments
    /\ requests = [r \in RequestIds |-> NoRequest]
    /\ client = NoClient
    /\ view = NoView
    /\ app = NoApp
    /\ build = NoBuild

\* A handler whose preflight branch lacks the return after res.status(200).end().
EndsHandlerButPreflight(answer) == answer.path # "preflight"

\* Every answer sent before the end of the handler is a return statement
\* (return res.status(...).json(...)) or is followed by one (res.end(); return;):
\* the handler ends with it.
EndsHandler(answer) == TRUE

\* A handler that keeps the provider's answer in one place for all requests:
\* a continuation finds there the answer of the request that resolved last.
AwaitedShared(r) == IF requests["r1"].pc = "reading" THEN "r1" ELSE r

\* The request whose provider answer the continuation of request r works on:
\* response, responseText, data and aiResponse are locals of the invocation.
Awaited(r) == r

\* A request arrives and the handler runs up to its first await: it answers
\* at once when a check fails, and calls the provider otherwise.
Arrive(r) ==
    /\ requests[r].pc = "idle"
    /\ \E v \in Variants, t \in AssignmentTexts, c \in CourseTypes :
         \E m \in MethodsOf(v) :
            LET q == [requests[r] EXCEPT !.variant = v, !.method = m,
                                         !.assignmentText = t, !.courseType = c]
                checked == Checks(q, env)
                sent == IF checked = NoResponse THEN q.sent ELSE q.sent + 1
            IN  requests' = [requests EXCEPT ![r] =
                    IF checked = NoResponse \/ ~EndsHandler(checked)
                    THEN [q EXCEPT !.pc = "fetching", !.calls = q.calls + 1,
                                   !.response = checked, !.sent = sent]
                    ELSE [q EXCEPT !.pc = "done", !.response = checked, !.sent = sent]]
    /\ UNCHANGED <<aiResponse, handler, response, env, client, view, app, build>>

\* The fetch settles: a rejection is answered at once, a resolved response is
\* kept while its body is awaited.
FetchSettles(r) ==
    /\ requests[r].pc = "fetching"
    /\ \E u \in Upstreams :
         requests' = [requests EXCEPT ![r] =
             IF u.kind = "connectFail"
             THEN [@ EXCEPT !.pc = "done", !.upstream = u, !.sent = @ + 1,
                            !.response = AnswerTo(requests[r].variant, u)]
             ELSE [@ EXCEPT !.pc = "reading", !.upstream = u]]
    /\ UNCHANGED <<aiResponse, handler, response, env, client, view, app, build>>

\* The body has arrived: the handler runs to its end and answers.
BodyRead(r) ==
    /\ requests[r].pc = "reading"
    /\ requests' = [requests EXCEPT ![r] =
           [@ EXCEPT !.pc = "done", !.sent = @ + 1,
                     !.response = AnswerTo(requests[r].variant, requests[Awaited(r)].upstream)]]
    /\ UNCHANGED <<aiResponse, handler, response, env, client, view, app, build>>

RequestNext == \E r \in RequestIds : Arrive(r) \/ FetchSettles(r) \/ BodyRead(r)

RequestSpec == RequestInit /\ [][RequestNext]_vars

(***************************************************************************)
(* The client: analyzeAssignment takes the server's answer, and the        *)
(* results view and its actions read the fields of the analysis it kept.   *)
(***************************************************************************)
IsArr(v) == v.t = "arr"

IsString(v) == v.t \in {"str", "text"}

\* The elements of an array value.
Items(v) == {v.a[i] : i \in 1..Len(v.a)}

\* data.overallScore && (data.barriers || data.dimensions)
AlreadyParsed(data) ==
    /\ Truthy(Get(data, "overallScore"))
    /\ Truthy(Get(data, "barriers")) \/ Truthy(Get(data, "dimensions"))

\* data.choices && data.choices[0] && data.choices[0].message
FromOpenRouter(data) ==
    /\ IsArr(Get(data, "choices")) /\ Get(data, "choices").a # <<>>
    /\ Truthy(Get(Get(data, "choices").a[1], "message"))

ClientState(analysis, error) ==
    [analysis |-> analysis, error |-> error, did |-> "received", threw |-> FALSE]

\* analyzeAssignment after the fetch: analysis and error as it leaves them.
Received(a) ==
    IF ~Ok(a.status)
    THEN ClientState(JNull, IF Truthy(Get(a.body, "error")) THEN Get(a.body, "error").s
                            ELSE "API Error")
    ELSE IF a.body.t = "null"
    THEN ClientState(JNull, "Cannot read properties of null")
    ELSE IF AlreadyParsed(a.body) THEN ClientState(a.body, "")
    ELSE IF FromOpenRouter(a.body)
    THEN LET content == Get(Get(Get(a.body, "choices").a[1], "message"), "content")
             parsed == IF content.t = "text" THEN ClientParse(content.x)
                       ELSE Result("parseError", 0, JNull)
         IN  IF parsed.path = "success" THEN ClientState(parsed.body, "")
             ELSE ClientState(JNull, "Failed to process AI response. The service may be temporarily unavailable. Please try again.")
    ELSE ClientState(JNull, "Invalid API response format")

\* array.map, array.filter: a TypeError unless the value is an array.
NotIterable(v) == ~IsArr(v)

\* The results view: the barrier list is guarded by ?., the persona
\* simulator reads analysis.barriers.filter(b => b.category.toLowerCase())
\* without a guard.
RenderThrows(analysis) ==
    \/ NotIterable(Get(analysis, "barriers"))
    \/ \E b \in Items(Get(analysis, "barriers")) : ~IsString(Get(b, "category"))

\* copyAnalysis: barriers.map(b => ... b.suggestions.join('; ')),
\* strengths.map, recommendations.map.
CopyThrows(analysis) ==
    \/ NotIterable(Get(analysis, "barriers"))
    \/ \E b \in Items(Get(analysis, "barriers")) : NotIterable(Get(b, "suggestions"))
    \/ NotIterable(Get(analysis, "strengths"))
    \/ NotIterable(Get(analysis, "recommendations"))

\* exportToPDF: barriers.map(b => ... b.severity.toLowerCase() ...
\* b.suggestions.map(...)), strengths.map, recommendations.map.
ExportThrows(analysis) ==
    \/ NotIterable(Get(analysis, "barriers"))
    \/ \E b \in Items(Get(analysis, "barriers")) :
          ~IsString(Get(b, "severity")) \/ NotIterable(Get(b, "suggestions"))
    \/ NotIterable(Get(analysis, "strengths"))
    \/ NotIterable(Get(analysis, "recommendations"))

\* The results view is on screen: analysis && !loading, and no render or
\* handler has thrown.
ResultsShown == client.did # "none" /\ client.analysis # JNull /\ ~client.threw

ClientInit == Init

\* analyzeAssignment: the answer of the server has arrived.
ReceiveResponse ==
    /\ handler \in {"first", "analyzeHandler", "second"}
    /\ client.did = "none"
    /\ client' = Received(response)
    /\ UNCHANGED <<aiResponse, handler, response, env, requests, view, app, build>>

\* The results view renders, the persona simulator included.
RenderResults ==
    /\ ResultsShown /\ client.did = "received"
    /\ client' = [client EXCEPT !.did = "render", !.threw = RenderThrows(client.analysis)]
    /\ UNCHANGED <<aiResponse, handler, response, env, requests, view, app, build>>

CopyAnalysis ==
    /\ ResultsShown /\ client.did = "render"
    /\ client' = [client EXCEPT !.did = "copy", !.threw = CopyThrows(client.analysis)]
    /\ UNCHANGED <<aiResponse, handler, response, env, requests, view, app, build>>

ExportToPDF ==
    /\ ResultsShown /\ client.did = "render"
    /\ client' = [client EXCEPT !.did = "pdf", !.threw = ExportThrows(client.analysis)]
    /\ UNCHANGED <<aiResponse, handler, response, env, requests, view, app, build>>

\* generateAlternatives: JSON.stringify(analysis.barriers) inside try; a
\* failure of the call or of the parse sets the error message.
GenerateAlternatives ==
    /\ ResultsShown /\ client.did = "render"
    /\ \E failed \in BOOLEAN :
         client' = [client EXCEPT !.did = "alternatives",
                                  !.error = IF failed THEN "Failed to generate alternatives"
                                            ELSE @]
    /\ UNCHANGED <<aiResponse, handler, response, env, requests, view, app, build>>

ClientNext ==
    \/ FirstVariant \/ AnalyzeHandler \/ SecondVariant
    \/ ReceiveResponse \/ RenderResults \/ CopyAnalysis \/ ExportToPDF \/ GenerateAlternatives

ClientSpec == ClientInit /\ [][ClientNext]_vars

(***************************************************************************)
(* What the claims speak of, stated on the completion text itself.         *)
(***************************************************************************)
Handlers == {"first", "analyzeHandler", "second"}

Fences(text) == {i \in 1..Len(text) : text[i].k = "fence"}

\* Opening markers of json-tagged fenced blocks: a marker, the tag, and a
\* closing marker somewhere after the tag.
TaggedOpenings(text) ==
    {i \in Fences(text) :
        /\ i + 1 <= Len(text) /\ text[i + 1].k = "json"
        /\ \E j \in Fences(text) : j > i + 1}

\* Opening markers of fenced blocks of any kind.
Openings(text) == {i \in Fences(text) : \E j \in Fences(text) : j > i}

\* The text between the first json-tagged opening (tag excluded) and the next
\* marker.
FirstTaggedInterior(text) ==
    LET i == SetMin(TaggedOpenings(text))
        j == SetMin({x \in Fences(text) : x > i + 1})
    IN  SubSeq(text, i + 2, j - 1)

\* The text between the first opening marker and the next marker.
FirstInterior(text) ==
    LET i == SetMin(Openings(text))
        j == SetMin({x \in Fences(text) : x > i})
    IN  SubSeq(text, i + 1, j - 1)

\* overallScore is a number and summary a non-empty string.
ValidRecord(v) ==
    /\ IsObj(v)
    /\ Get(v, "overallScore").t = "num"
    /\ Get(v, "summary").t \in {"str", "text"}
    /\ Truthy(Get(v, "summary"))

\* The text is valid JSON for a record with both required fields.
ValidRecordText(text) == JSONParse(text).ok /\ ValidRecord(JSONParse(text).v)

Returned(r) == r.path \in {"success", "fallback"}

\* C1: normalize never raises: for every completion text the handler answers
\* 200 with a record, and a candidate that fails validation is replaced by the
\* fallback, so a record sent on the success path has both required fields.
C1_AlwaysARecord ==
    (handler \in {"analyzeHandler", "second"} /\ response.path # "missingContent")
        => /\ response.status = 200
           /\ Returned(response)
           /\ IsObj(response.body)
           /\ Has(response.body, "overallScore") /\ Has(response.body, "summary")

\* C2: a completion whose (first) json-tagged fenced block holds a valid
\* record yields exactly the parsed interior of that block.
C2_TaggedBlockReturned ==
    (/\ handler \in {"second", "client"}
     /\ TaggedOpenings(aiResponse) # {}
     /\ ValidRecordText(FirstTaggedInterior(aiResponse)))
        => /\ response.path = "success"
           /\ response.body = JSONParse(FirstTaggedInterior(aiResponse)).v

\* C3: a completion without json-tagged block whose (first) untagged fenced
\* block holds a valid record yields the parsed interior of that block.
C3_UntaggedBlockReturned ==
    (/\ handler \in {"second", "analyzeHandler"}
     /\ TaggedOpenings(aiResponse) = {}
     /\ Openings(aiResponse) # {}
     /\ ValidRecordText(FirstInterior(aiResponse)))
        => /\ response.path = "success"
           /\ response.body = JSONParse(FirstInterior(aiResponse)).v

\* The {...} spans of the text that are valid JSON for a record.
RecordSpans(text) ==
    {sp \in {<<i, j>> : i \in {x \in 1..Len(text) : text[x].k = "lb"},
                        j \in {x \in 1..Len(text) : text[x].k = "rb"}} :
        sp[1] < sp[2] /\ ValidRecordText(SubSeq(text, sp[1], sp[2]))}

\* C4: a completion without fenced block that contains a {...} span holding a
\* valid record yields the parsed span, whatever braces the prose around it
\* contains.
C4_BraceSpanReturned ==
    (/\ handler \in {"second", "client", "analyzeHandler"}
     /\ Fences(aiResponse) = {}
     /\ RecordSpans(aiResponse) # {})
        => /\ response.path = "success"
           /\ \E sp \in RecordSpans(aiResponse) :
                 response.body = JSONParse(SubSeq(aiResponse, sp[1], sp[2])).v

\* The six fixed dimension entries of the fallback record, as the
\* specification lists them.
ExpectedDimension(name, recommendation) ==
    JObj([name |-> JStr(name), score |-> JNum(75),
          issues |-> JArr(<<JStr("Review required")>>),
          recommendations |-> JArr(<<JStr(recommendation)>>)])

SixDimensions ==
    JArr(<< ExpectedDimension("Socioeconomic", "Consider student resources"),
            ExpectedDimension("Time & Scheduling", "Consider flexibility"),
            ExpectedDimension("Cultural & Linguistic", "Consider inclusivity"),
            ExpectedDimension("Accessibility", "Consider accommodations"),
            ExpectedDimension("Digital Divide", "Consider access"),
            ExpectedDimension("Learning Support", "Consider guidance") >>)

\* C5 as stated: an empty completion yields the fixed fallback record
\* (overallScore 75, the six dimension entries), never an error response.
C5_EmptyYieldsFallback ==
    (handler \in {"first", "second"} /\ aiResponse = <<>>)
        => /\ response.status = 200
           /\ response.path = "fallback"
           /\ Get(response.body, "overallScore") = JNum(75)
           /\ Get(response.body, "dimensions") = SixDimensions

\* C5, amended: for an empty completion the first variant and analyzeHandler
\* answer 200 with the record {overallScore 75, summary "...", the six
\* dimensions}; the second variant answers 500 with an error object and
\* builds no record.
C5_EmptyCompletion ==
    aiResponse = <<>> =>
        /\ handler \in {"first", "analyzeHandler"} =>
              /\ response.status = 200
              /\ response.path = "fallback"
              /\ response.body = JObj([overallScore |-> JNum(75),
                                       summary |-> JText(<<Ellipsis>>),
                                       dimensions |-> SixDimensions])
        /\ handler = "second" =>
              /\ response.status = 500
              /\ ~Returned(response)
              /\ Has(response.body, "error")
              /\ ~Has(response.body, "overallScore")

\* C5 witness: the first variant has answered an empty completion.
C5_Witness ==
    aiResponse = <<>> /\ handler = "first" /\ response.status = 200 /\ response.path = "fallback"

\* The candidate of a completion with a fenced block: the interior of the
\* first json-tagged block, else of the first block; without a block, the
\* whole text.
CandidateText(text) ==
    IF TaggedOpenings(text) # {} THEN FirstTaggedInterior(text)
    ELSE IF Openings(text) # {} THEN FirstInterior(text)
    ELSE text

LacksRequired(v) == IsObj(v) /\ (~Has(v, "summary") \/ ~Has(v, "overallScore"))

\* C6: a candidate that is valid JSON but lacks summary or overallScore
\* yields the fallback record, never the parsed object, fenced blocks
\* included.
C6_PartialRecordRejected ==
    (/\ handler \in Handlers
     /\ JSONParse(CandidateText(aiResponse)).ok
     /\ LacksRequired(JSONParse(CandidateText(aiResponse)).v))
        => /\ response.path = "fallback"
           /\ response.body # JSONParse(CandidateText(aiResponse)).v

\* C7: every record handed on has a numeric overallScore and a non-empty
\* summary.
C7_RequiredFieldsValid ==
    (handler \in {"second", "client"} /\ Returned(response))
        => ValidRecord(response.body)

\* x is the first count characters of text followed by the ellipsis.
IsExcerpt(x, text, count) ==
    /\ Len(x) >= 1 /\ x[Len(x)] = Ellipsis
    /\ CharLen(x) = Min(count, CharLen(text)) + 3
    /\ CharLen(x) <= count + 3
    /\ Len(x) - 1 <= Len(text)
    /\ \A i \in 1..(Len(x) - 1) :
          \/ x[i] = text[i]
          \/ i = Len(x) - 1 /\ TokChars(x[i]) < TokChars(text[i])

ExcerptField(v, key, text, count) ==
    Get(v, key).t = "text" /\ IsExcerpt(Get(v, key).x, text, count)

RequiredPresent(v) == Has(v, "overallScore") /\ Has(v, "summary")

\* Extraction, parsing or validation failed for the response.
Failed(r) == r.path = "fallback" \/ (r.path = "success" /\ ~RequiredPresent(r.body))

\* C8 as stated: whenever extraction, parsing or validation fails the record
\* has overallScore 75 and a summary of the first 200 characters plus "...".
C8_FallbackIs75WithExcerpt ==
    (handler \in Handlers /\ Failed(response))
        => /\ Get(response.body, "overallScore") = JNum(75)
           /\ ExcerptField(response.body, "summary", aiResponse, 200)

\* No fenced block, or the interior of the block the cascade takes is not JSON.
NoParsableBlock(text) == Openings(text) = {} \/ ~JSONParse(CandidateText(text)).ok

\* C8, amended: the first variant and analyzeHandler fall back exactly when
\* there is no fenced block or its interior is not JSON, and then the record
\* has overallScore 75 and summary = first 200 characters of the completion
\* plus "..." (also when it is shorter; at most 203 characters).  The second
\* variant's fallback has overallScore 70, a fixed summary and
\* reformattedAssignment = first 500 characters of the completion plus "...".
C8_FallbackSummaries ==
    /\ handler \in {"first", "analyzeHandler"} =>
          /\ response.path = "fallback" <=> NoParsableBlock(aiResponse)
          /\ response.path = "fallback" =>
                /\ Get(response.body, "overallScore") = JNum(75)
                /\ ExcerptField(response.body, "summary", aiResponse, 200)
                /\ CharLen(Get(response.body, "summary").x) <= 203
    /\ (handler = "second" /\ response.path = "fallback") =>
          /\ Get(response.body, "overallScore") = JNum(70)
          /\ Get(response.body, "summary")
                = JStr("Analysis completed. Review the recommendations below.")
          /\ ExcerptField(response.body, "reformattedAssignment", aiResponse, 500)

\* C8 witness: the first variant fell back on a completion shorter than 200
\* characters and the summary is the whole text plus the ellipsis.
C8_Witness ==
    /\ handler = "first" /\ response.path = "fallback"
    /\ CharLen(aiResponse) > 0 /\ CharLen(aiResponse) < 200
    /\ CharLen(Get(response.body, "summary").x) = CharLen(aiResponse) + 3

\* C9 as stated: every fallback record carries the six fixed dimensions.
C9_FallbackHasSixDimensions ==
    (handler \in Handlers /\ response.path = "fallback")
        => Get(response.body, "dimensions") = SixDimensions

\* C9, amended: every fallback record of the first variant and of
\* analyzeHandler carries exactly the six fixed dimension entries, whatever
\* the input; the fallback record of the second variant carries no
\* dimensions but one fixed "General Review" barrier.
C9_FallbackDimensions ==
    response.path = "fallback" =>
        /\ handler \in {"first", "analyzeHandler"} =>
              Get(response.body, "dimensions") = SixDimensions
        /\ handler = "second" =>
              /\ ~Has(response.body, "dimensions")
              /\ Get(response.body, "barriers").t = "arr"
              /\ Len(Get(response.body, "barriers").a) = 1
              /\ Get(Get(response.body, "barriers").a[1], "category") = JStr("General Review")

\* C9 witness: analyzeHandler fell back on a non-empty completion.
C9_Witness ==
    /\ handler = "analyzeHandler" /\ response.path = "fallback"
    /\ aiResponse # <<>>
    /\ Len(Get(response.body, "dimensions").a) = 6

RichKeys == {"barriers", "strengths", "recommendations", "reformattedAssignment"}

Keys(v) == IF IsObj(v) THEN DOMAIN v.m ELSE {}

\* C10 as stated: the fallback record has dimensions and none of the rich
\* fields, and a record with barriers, strengths or recommendations never
\* has dimensions.
C10_ShapesNeverMixed ==
    (handler \in Handlers /\ Returned(response))
        => /\ response.path = "fallback" =>
                 ("dimensions" \in Keys(response.body) /\ Keys(response.body) \cap RichKeys = {})
           /\ Keys(response.body) \cap {"barriers", "strengths", "recommendations"} # {} =>
                 "dimensions" \notin Keys(response.body)

\* C10, amended: no fallback record mixes the shapes: the fallback of the
\* first variant and analyzeHandler has dimensions and none of the rich
\* fields, the fallback of the second variant has all four rich fields and no
\* dimensions.  A record of the success path is the parsed candidate
\* unchanged, with whatever keys the completion gave it.
C10_FallbackShapes ==
    /\ (handler \in {"first", "analyzeHandler"} /\ response.path = "fallback") =>
          Keys(response.body) = {"overallScore", "summary", "dimensions"}
    /\ (handler = "second" /\ response.path = "fallback") =>
          Keys(response.body) = {"overallScore", "summary"} \cup RichKeys
    /\ (handler \in Handlers /\ response.path = "success" /\ response.strategy \in {1, 2}) =>
          response.body = JSONParse(CandidateText(aiResponse)).v
    /\ (handler = "second" /\ response.path = "success" /\ response.strategy \in {3, 4}) =>
          \E i, j \in 1..Len(aiResponse) :
              /\ JSONParse(SubSeq(aiResponse, i, j)).ok
              /\ response.body = JSONParse(SubSeq(aiResponse, i, j)).v

\* C10 witness: the second variant returned a success record that carries
\* barriers and dimensions together.
C10_Witness ==
    /\ handler = "second" /\ response.path = "success"
    /\ {"barriers", "dimensions"} \subseteq Keys(response.body)

(***************************************************************************)
(* Claims on the request flow.                                             *)
(***************************************************************************)
Done(r) == requests[r].pc = "done"

\* The provider could not be reached or answered with a status outside 2xx.
TransportFailure(u) ==
    \/ u.kind = "connectFail"
    \/ u.kind = "answer" /\ (u.status < 200 \/ u.status > 299)

IsErrorAnswer(a) ==
    /\ a.status >= 400
    /\ Has(a.body, "error")
    /\ ~Has(a.body, "overallScore")

CascadeRan(a) == a.path \in {"success", "fallback"}

C12_EveryRecordRenders ==
    (handler \in Handlers /\ response.status = 200 /\ client.did # "none")
        => /\ client.analysis = response.body
           /\ ~client.threw

\* The two requests carry the same input: handler, method, body and what the
\* provider sent.
SameInput(a, b) ==
    /\ a.variant = b.variant /\ a.method = b.method
    /\ a.assignmentText = b.assignmentText /\ a.courseType = b.courseType
    /\ a.upstream = b.upstream

HandledAlone(q, e) ==
    IF Checks(q, e) # NoResponse THEN Checks(q, e) ELSE AnswerTo(q.variant, q.upstream)

\* C14: however concurrently handled requests interleave, each request is
\* answered as it would be alone: no request reads what another has written.
C14_HandledAsAlone ==
    \A r \in RequestIds :
        Done(r) => requests[r].response = HandledAlone(requests[r], env)

\* C14 witness: one request was answered from its own completion while the
\* other, holding a different completion, is suspended in its handler.
C14_Witness ==
    \E r, o \in RequestIds :
        /\ Done(r) /\ requests[o].pc = "reading"
        /\ requests[r].variant = "second" /\ requests[o].variant = "second"
        /\ requests[r].upstream.shape = "completion"
        /\ requests[o].upstream.shape = "completion"
        /\ requests[r].upstream # requests[o].upstream
        /\ requests[r].response.path = "success"

(***************************************************************************)
(* Claims on the cascade.                                                  *)
(***************************************************************************)
SchemaKeys ==
    {"overallScore", "summary", "barriers", "strengths", "recommendations",
     "reformattedAssignment"}

\* C15: a record returned on the success path holds schema fields only
\* (fields of the parsed object the schema does not name are dropped), and
\* barriers, strengths and recommendations are present, as empty sequences
\* when the parsed object lacks them.
C15_SuccessRecordCoerced ==
    (handler \in {"second", "client"} /\ response.path = "success")
        => /\ Keys(response.body) \subseteq SchemaKeys
           /\ \A k \in {"barriers", "strengths", "recommendations"} :
                 Get(response.body, k).t = "arr"

\* The candidate is JSON and passes the required-field check.
Accepted(text) == JSONParse(text).ok /\ PassesValidation(JSONParse(text).v)

\* The text has a { ... "overallScore" ... } span.
HasScoreSpan(text) ==
    \E i, j, e \in 1..Len(text) :
        i < j /\ j < e /\ text[i].k = "lb" /\ IsScoreKey(text[j]) /\ text[e].k = "rb"

\* C16: the strategies are tried in the order json-tagged fence, any fence,
\* brace span with "overallScore", whole trimmed text, and the first that
\* matches supplies the candidate: with a json-tagged block in the text its
\* interior is the candidate, wherever untagged blocks stand, and a brace
\* span is used only when the text has no fenced block.
C16_StrategyOrder ==
    (handler \in {"second", "client"} /\ response.path # "missingContent") =>
        /\ TaggedOpenings(aiResponse) # {} =>
              /\ response.strategy = 1
              /\ response.path = "success" <=> Accepted(FirstTaggedInterior(aiResponse))
              /\ response.path = "success" =>
                    response.body = JSONParse(FirstTaggedInterior(aiResponse)).v
        /\ (TaggedOpenings(aiResponse) = {} /\ Openings(aiResponse) # {}) =>
              /\ response.strategy = 2
              /\ response.path = "success" <=> Accepted(FirstInterior(aiResponse))
              /\ response.path = "success" =>
                    response.body = JSONParse(FirstInterior(aiResponse)).v
        /\ response.strategy = 3 <=> (Openings(aiResponse) = {} /\ HasScoreSpan(aiResponse))
        /\ response.strategy = 4 <=> (Openings(aiResponse) = {} /\ ~HasScoreSpan(aiResponse))

\* C16 witness: an untagged block stands before the json-tagged one, and the
\* second variant returned the interior of the json-tagged block.
C16_Witness ==
    /\ handler = "second" /\ response.path = "success" /\ response.strategy = 1
    /\ TaggedOpenings(aiResponse) # {}
    /\ SetMin(Openings(aiResponse)) < SetMin(TaggedOpenings(aiResponse))
    /\ response.body = JSONParse(FirstTaggedInterior(aiResponse)).v

\* The text the first matching strategy hands to the parser.
FirstCandidate(text) ==
    IF Openings(text) # {} THEN CandidateText(text)
    ELSE IF HasScoreSpan(text)
    THEN SubSeq(text, SetMin({i \in 1..Len(text) : text[i].k = "lb" /\ HasScoreSpan(SubSeq(text, i, Len(text)))}),
                SetMax({e \in 1..Len(text) : text[e].k = "rb"}))
    ELSE Trim(text)

\* C17: the cascade does not backtrack: when the candidate of the first
\* matching strategy fails to parse or to validate, the fallback record is
\* returned at once, even when a later strategy would have found a valid
\* record in the text.
C17_NoBacktracking ==
    (handler = "second" /\ response.path # "missingContent"
        /\ ~Accepted(FirstCandidate(aiResponse)))
        => /\ response.path = "fallback"
           /\ response.body = BarrierFallback(aiResponse)

\* C17 witness: the json-tagged block of the completion holds no JSON, the
\* brace pattern would have found a valid record further on, and the second
\* variant returned its fallback.
C17_Witness ==
    /\ handler = "second" /\ response.path = "fallback" /\ response.strategy = 1
    /\ ~Accepted(FirstTaggedInterior(aiResponse))
    /\ BraceMatch(aiResponse).found
    /\ Accepted(BraceMatch(aiResponse).whole)

\* C18: a completion without fenced block and without brace span containing
\* "overallScore" is parsed whole (trimmed) before any fallback is built: the
\* fallback is returned only when that parse or its validation failed.
C18_WholeTextParsed ==
    (/\ handler \in Handlers /\ response.path # "missingContent"
     /\ Openings(aiResponse) = {} /\ ~HasScoreSpan(aiResponse))
        => /\ Accepted(Trim(aiResponse)) =>
                 /\ response.path = "success"
                 /\ response.body = JSONParse(Trim(aiResponse)).v
           /\ response.path = "fallback" => ~Accepted(Trim(aiResponse))

\* C19 as stated: the three handlers that normalise a completion are
\* equivalent: for every completion they take the same decision and return
\* the same record, with the same fallback constants.
C19_VariantsEquivalent ==
    handler \in Handlers =>
        /\ response.status = 200
        /\ response.path = FirstVariantNormalize(aiResponse).path
        /\ response.body = FirstVariantNormalize(aiResponse).body

\* C19, amended: the first variant and analyzeHandler are equivalent: same
\* decision, same record, same fallback constants for every completion.  The
\* second variant agrees with them exactly when a fenced block supplies a
\* candidate that parses and passes the required-field check; in every other
\* case its answer differs (brace span and whole text as candidates,
\* validation, a fallback with overallScore 70 and barriers, status 500 for
\* an empty completion).
C19_VariantsCompared ==
    /\ handler = "first" => response = Respond(200, AnalyzeHandlerNormalize(aiResponse))
    /\ handler = "analyzeHandler" => response = Respond(200, FirstVariantNormalize(aiResponse))
    /\ handler = "second" =>
          LET first == FirstVariantNormalize(aiResponse)
          IN  /\ response.body = first.body
                    <=> (first.path = "success" /\ first.body.t # "null"
                         /\ PassesValidation(first.body))
              /\ (response.path = "fallback" /\ first.path = "fallback") =>
                    /\ Get(response.body, "overallScore") = JNum(70)
                    /\ Get(first.body, "overallScore") = JNum(75)

\* C19 witness: the second variant fell back on a completion for which the
\* first variant returns the parsed block.
C19_Witness ==
    /\ handler = "second" /\ response.path = "fallback"
    /\ FirstVariantNormalize(aiResponse).path = "success"
    /\ AnalyzeHandlerNormalize(aiResponse).path = "success"

\* C20: a request passes the checks in the order preflight, method, body,
\* API key, provider call: OPTIONS is answered 200, another method than POST
\* 405, a missing or empty assignmentText 400, a missing API key 500, in each
\* case without a call of the provider; the provider is called only for a
\* request that passed every check.
C20_ChecksBeforeCall ==
    \A r \in RequestIds :
        LET q == requests[r]
            bodyOk == Truthy(q.assignmentText)
        IN  /\ (Done(r) /\ q.method = "OPTIONS") =>
                  (q.response.status = 200 /\ q.calls = 0)
            /\ (Done(r) /\ q.method \notin {"OPTIONS", "POST"}) =>
                  (q.response.status = 405 /\ q.calls = 0)
            /\ (Done(r) /\ q.method = "POST" /\ ~bodyOk) =>
                  (q.response.status = 400 /\ q.calls = 0)
            /\ (q.pc # "idle" /\ q.method = "POST" /\ bodyOk /\ env = {}) =>
                  /\ q.calls = 0
                  /\ q.response.status \in {400, 500}
                  /\ Truthy(q.courseType) => q.response.status = 500
            /\ q.calls > 0 => (q.method = "POST" /\ bodyOk /\ env # {})

(***************************************************************************)
(* Progress of a request.  The handlers pass fetch no signal and set no    *)
(* timer (server.js:295-304, analyze.js:125-199, part_003:25-61,           *)
(* part_001:50-86), so the only step that leaves the await of the provider *)
(* is the provider's own answer.  The event loop runs a continuation whose *)
(* promise has settled: the steps after the provider answered are weakly   *)
(* fair.  The provider owes no answer: FetchSettles carries no fairness.   *)
(***************************************************************************)
HandlerProgress == WF_vars(BodyRead("r1"))

\* One request followed from its arrival to its answer; the handlers share
\* nothing between requests, so the other request stays idle.
OneRequestNext == Arrive("r1") \/ FetchSettles("r1") \/ BodyRead("r1")

FairRequestSpec == RequestInit /\ [][OneRequestNext]_vars /\ HandlerProgress

CallPending(r) == requests[r].pc = "fetching"

\* C21: the upstream call is bounded by a timeout: every accepted analyze
\* request (one that passed the checks and called the provider) eventually
\* receives a response, also when the provider never answers.
C21_AcceptedEventuallyAnswered ==
    \A r \in RequestIds : CallPending(r) ~> Done(r)

(***************************************************************************)
(* The barriers on screen.  A barrier carries the category and severity    *)
(* strings as the provider wrote them; the barrier list, the print layout, *)
(* the PDF export and the persona simulator each derive classes from them. *)
(***************************************************************************)
MaxBarriers == 2

\* The categories the system prompt names (server.js:245-250).
Categories == {"Socioeconomic", "Digital Access", "Time & Scheduling",
               "Cultural & Linguistic", "Accessibility", "Learning Supports"}

Severities == {"High", "HIGH", "high", "Medium", "MEDIUM", "medium",
               "Low", "LOW", "low", "Critical"}

\* String.prototype.toLowerCase on the strings above.
ToLowerCase(s) ==
    CASE s \in {"High", "HIGH", "high"} -> "high"
      [] s \in {"Medium", "MEDIUM", "medium"} -> "medium"
      [] s \in {"Low", "LOW", "low"} -> "low"
      [] s = "Critical" -> "critical"
      [] s = "Socioeconomic" -> "socioeconomic"
      [] s = "Digital Access" -> "digital access"
      [] s = "Time & Scheduling" -> "time & scheduling"
      [] s = "Cultural & Linguistic" -> "cultural & linguistic"
      [] s = "Accessibility" -> "accessibility"
      [] s = "Learning Supports" -> "learning supports"
      [] OTHER -> s

\* String.prototype.includes on the lower-cased categories: the words of
\* the persona filters that occur in each.
Includes(category, word) ==
    word \in (CASE category = "socioeconomic" -> {"socio", "economic"}
                [] category = "digital access" -> {"digital"}
                [] category = "time & scheduling" -> {"time", "scheduling"}
                [] category = "cultural & linguistic" -> {"cultural", "linguistic"}
                [] category = "learning supports" -> {"learning", "support"}
                [] OTHER -> {})

Barriers == [category : Categories, severity : Severities]

BarrierLists == UNION { [1..n -> Barriers] : n \in 0..MaxBarriers }

getSeverityColor(severity) ==
    LET colors == [high |-> "bg-red-500/10 border-red-500/30 text-red-400",
                   medium |-> "bg-yellow-500/10 border-yellow-500/30 text-yellow-400",
                   low |-> "bg-green-500/10 border-green-500/30 text-green-400"]
    IN  IF ToLowerCase(severity) \in DOMAIN colors THEN colors[ToLowerCase(severity)]
        ELSE "bg-gray-500/10 border-gray-500/30 text-gray-400"

\* The print layout's class of a barrier card.
PrintSeverityClass(severity) ==
    IF ToLowerCase(severity) = "high" THEN "print-severity-high"
    ELSE IF ToLowerCase(severity) = "medium" THEN "print-severity-medium"
    ELSE "print-severity-low"

\* exportToPDF: <span class="severity ${b.severity.toLowerCase()}">
PdfSeverityClass(severity) == ToLowerCase(severity)

PersonaIds == {"working", "esl", "caregiver", "firstgen"}

\* analysis.barriers.filter(b => ...) of a persona card.
AffectsPersona(persona, b) ==
    LET category == ToLowerCase(b.category)
        IncludesAny(words) == \E w \in words : Includes(category, w)
    IN  \/ persona = "working" /\ IncludesAny({"time", "cost", "economic", "socio"})
        \/ persona = "esl" /\ IncludesAny({"language", "cultural", "linguistic", "communication"})
        \/ persona = "caregiver" /\ IncludesAny({"time", "digital", "flexibility", "scheduling"})
        \/ persona = "firstgen" /\ IncludesAny({"cultural", "digital", "academic", "learning", "support"})

RelevantBarriers(persona, barriers) ==
    LET Test(b) == AffectsPersona(persona, b) IN SelectSeq(barriers, Test)

\* relevantBarriers.some(b => b.severity === 'High')
HasHighImpact(relevantBarriers) ==
    \E i \in 1..Len(relevantBarriers) : relevantBarriers[i].severity = "High"

\* The count badge of a persona card: absent without a relevant barrier,
\* red with a high-impact one, yellow otherwise.
PersonaBadge(relevantBarriers) ==
    IF Len(relevantBarriers) = 0 THEN "none"
    ELSE IF HasHighImpact(relevantBarriers) THEN "bg-red-500/20 text-red-400"
    ELSE "bg-yellow-500/20 text-yellow-400"

\* The warning icon of a challenge listed on the selected persona's card.
PersonaIconColor(severity) ==
    IF severity = "High" THEN "text-red-400"
    ELSE IF severity = "Medium" THEN "text-yellow-400"
    ELSE "text-blue-400"

\* Everything the results view derives from the severities.
Screen(barriers, selectedPersona) ==
    LET relevant == IF selectedPersona = "null" THEN <<>>
                    ELSE RelevantBarriers(selectedPersona, barriers)
    IN  [colors |-> [i \in 1..Len(barriers) |-> getSeverityColor(barriers[i].severity)],
         printClasses |-> [i \in 1..Len(barriers) |-> PrintSeverityClass(barriers[i].severity)],
         pdfClasses |-> [i \in 1..Len(barriers) |-> PdfSeverityClass(barriers[i].severity)],
         badges |-> [p \in PersonaIds |-> PersonaBadge(RelevantBarriers(p, barriers))],
         icons |-> [i \in 1..Len(relevant) |-> PersonaIconColor(relevant[i].severity)],
         warning |-> HasHighImpact(relevant)]

ViewInit ==
    /\ aiResponse = <<>>
    /\ handler = "none"
    /\ response = NoResponse
    /\ env = {}
    /\ requests = <<>>
    /\ client = NoClient
    /\ view \in {[NoView EXCEPT !.barriers = b] : b \in BarrierLists}
    /\ app = NoApp
    /\ build = NoBuild

\* The analysis is set and the results view renders.
ShowResults ==
    /\ ~view.shown
    /\ view' = [view EXCEPT !.shown = TRUE, !.screen = Screen(view.barriers, "null")]
    /\ UNCHANGED <<aiResponse, handler, response, env, requests, client, app, build>>

\* A persona card is clicked: the selection toggles and the view renders.
SelectPersona(p) ==
    /\ view.shown
    /\ LET selected == IF view.selectedPersona = p THEN "null" ELSE p
       IN  view' = [view EXCEPT !.selectedPersona = selected,
                                !.screen = Screen(view.barriers, selected)]
    /\ UNCHANGED <<aiResponse, handler, response, env, requests, client, app, build>>

ViewNext == ShowResults \/ \E p \in PersonaIds : SelectPersona(p)

ViewSpec == ViewInit /\ [][ViewNext]_vars

\* The barrier lists that differ from the given one in the letter case of
\* the severities only.
Respellings(barriers) ==
    {[i \in 1..Len(barriers) |-> [barriers[i] EXCEPT !.severity = f[i]]] :
        f \in {g \in [1..Len(barriers) -> Severities] :
                 \A i \in 1..Len(barriers) :
                     ToLowerCase(g[i]) = ToLowerCase(barriers[i].severity)}}

\* C22: severity is treated case-insensitively everywhere downstream: the
\* colour class, the print severity class, the persona high-impact badge,
\* the challenge icon and the high-severity warning on screen are the same
\* for every spelling ("high", "HIGH", "High", ...) of the barriers' severities.
C22_SeverityCaseInsensitive ==
    view.shown =>
        \A other \in Respellings(view.barriers) :
            Screen(other, view.selectedPersona) = view.screen

\* No string of the text is written with an escape sequence.
NoEscapes(text) == \A i \in 1..Len(text) : text[i].k # "estr"

\* C23 as stated: strategy 4 (the whole trimmed text) never produces a success
\* record, in the second variant and in the client.
C23_Strategy4NeverSucceeds ==
    (handler \in {"second", "client"} /\ response.strategy = 4)
        => response.path # "success"

\* C23: when control reaches strategy 4 the text has no brace span containing
\* "overallScore"; a text whose strings are written without escape sequences
\* then fails to parse or fails the required-field validation, and the result
\* is the fallback record (server) or the parse error (client).  Strategy 4
\* succeeds only on a record whose "overallScore" key is written with an
\* escape, which the brace pattern does not match and JSON.parse decodes.
C23_Strategy4SuccessNeedsEscape ==
    (handler \in {"second", "client"} /\ response.strategy = 4)
        => /\ ~BraceMatch(aiResponse).found
           /\ NoEscapes(aiResponse) => response.path \in {"fallback", "parseError"}
           /\ response.path = "success" =>
                 /\ response.body = JSONParse(Trim(aiResponse)).v
                 /\ \E i \in 1..Len(aiResponse) :
                       aiResponse[i] = EscStrLit("overallScore")
           /\ (handler = "second" /\ response.path = "fallback")
                 => response.body = BarrierFallback(aiResponse)

\* C23 witness: strategy 4 parsed a whole text written without escapes into
\* an object, validation rejected it and the second variant returned the
\* fallback.
C23_Witness ==
    /\ handler = "second" /\ response.strategy = 4 /\ response.path = "fallback"
    /\ NoEscapes(aiResponse)
    /\ JSONParse(Trim(aiResponse)).ok /\ IsObj(JSONParse(Trim(aiResponse)).v)

\* C24: every request gets exactly one response on every path: no handler
\* sends a second response, a handler that has returned has sent one, and
\* nothing is sent for a request whose handler has not returned.
C24_ExactlyOneResponse ==
    \A r \in RequestIds :
        /\ requests[r].sent <= 1
        /\ Done(r) <=> requests[r].sent = 1
        /\ Done(r) => requests[r].response # NoResponse

\* C24 witness: one request was answered by a check before the call (the
\* preflight), the other after the provider's answer went through the
\* cascade to the fallback; each got one response.
C24_Witness ==
    /\ Done("r1") /\ requests["r1"].response.path = "preflight"
    /\ requests["r1"].sent = 1
    /\ Done("r2") /\ requests["r2"].variant = "second"
    /\ requests["r2"].response.path = "fallback"
    /\ requests["r2"].sent = 1

\* The provider answered 200 with a body that holds no non-empty content
\* string at choices[0].message.content, and the body could be read.
LacksContent(u) ==
    /\ u.kind = "answer" /\ Ok(u.status)
    /\ \/ u.shape \in {"notJson", "noChoices", "noContent"}
       \/ u.shape = "completion" /\ u.content = <<>>

\* C25: the second variant validates the provider's body before using it: a
\* body that is not JSON, has no non-empty choices array, or whose first
\* choice has no non-empty message content is answered with status 500 and
\* an error object by the check that found it, never by the outer catch
\* block (no dereference of the missing content throws); the extraction
\* cascade runs only on a non-empty content string.
C25_BodyValidatedBeforeUse ==
    \A r \in RequestIds :
        (Done(r) /\ requests[r].variant = "second") =>
            LET u == requests[r].upstream
                a == requests[r].response
            IN  /\ LacksContent(u) =>
                      /\ a.status = 500
                      /\ IsErrorAnswer(a)
                      /\ a.path \in {"badUpstream", "missingContent"}
                /\ CascadeRan(a) =>
                      /\ u.kind = "answer" /\ Ok(u.status)
                      /\ u.shape = "completion" /\ u.content # <<>>

\* C25 witness: the provider's first choice had no message content and the
\* second variant answered 500 by its content check; for another request the
\* cascade ran on a non-empty content.
C25_Witness ==
    \E r, o \in RequestIds :
        /\ Done(r) /\ requests[r].variant = "second"
        /\ requests[r].upstream.shape = "noContent"
        /\ requests[r].response.status = 500
        /\ requests[r].response.path = "missingContent"
        /\ Done(o) /\ requests[o].variant = "second"
        /\ CascadeRan(requests[o].response)

(***************************************************************************)
(* The App component: the input card (always rendered), the Analyze        *)
(* button, the alternatives button and the chat panel of the results view. *)
(* React applies the state updates of one run of a handler, up to its next *)
(* await, together: each action below is such a run.                       *)
(***************************************************************************)
MinChars == 10

MaxSends == 2

\* Texts of the textarea: empty, a short text padded with blanks, one
\* character too short, just long enough.
AssignmentInputs ==
    { <<>>, <<SP, SP, SP, Word(MinChars - 5), SP, SP, SP>>,
      <<Word(MinChars - 1)>>, <<Word(MinChars)>> }

\* A check on the untrimmed length, as the Ready badge makes it.
TooShortUntrimmed(text) == text = <<>> \/ CharLen(text) < MinChars

\* !assignmentText || assignmentText.trim().length < 10
TooShort(text) == text = <<>> \/ CharLen(Trim(text)) < MinChars

\* fetch rejects: the server cannot be reached.
NetworkFailure == ErrorAnswer(0, "networkError", Undefined)

\* What the server can answer to the client: a record, the rate-limit
\* record, an HTTP error, a completion passed on that holds no JSON, and a
\* body of neither format.
AnalysisAnswers ==
    { Respond(200, SecondVariantNormalize(<<Word(ShortProse)>>)),
      SecondVariantNotOk(429), SecondVariantNotOk(500),
      VercelAnswer(Answer(200, "completion", <<Word(ShortProse)>>)),
      VercelAnswer(Answer(200, "noChoices", <<>>)) }

\* analysis and error as the run leaves them when the fetch has settled.
AnalysisAndError(c) == [analysis |-> c.analysis, error |-> c.error]

Outcome(a) ==
    IF a = NetworkFailure THEN [analysis |-> JNull, error |-> "Failed to fetch"]
    ELSE AnalysisAndError(Received(a))

Outcomes == {Outcome(a) : a \in AnalysisAnswers \cup {NetworkFailure}}

ParseErrorMessage ==
    "Failed to process AI response. The service may be temporarily unavailable. Please try again."

\* A run without the finally block: only the parse-error path resets loading.
LoadingAfterWithoutFinally(o) == o.error # ParseErrorMessage

\* finally { setLoading(false) }
LoadingAfter(o) == FALSE

AppInit ==
    /\ aiResponse = <<>>
    /\ handler = "none"
    /\ response = NoResponse
    /\ env = {}
    /\ requests = <<>>
    /\ client = NoClient
    /\ view = NoView
    /\ app = NoApp
    /\ build = NoBuild

\* The textarea changes or an example is clicked.
EditText(t) ==
    /\ app' = [app EXCEPT !.assignmentText = t, !.error = ""]
    /\ UNCHANGED <<aiResponse, handler, response, env, requests, client, view, build>>

\* The results view is rendered.
ResultsView == app.analysis # JNull /\ ~app.loading

\* The Analyze button is clicked (disabled={loading}): analyzeAssignment up
\* to its await of fetch.
AnalyzeClick ==
    /\ ~app.loading
    /\ app' = IF TooShort(app.assignmentText)
              THEN [app EXCEPT !.error =
                        "Please enter an assignment description (minimum 10 characters)"]
              ELSE [app EXCEPT !.error = "", !.loading = TRUE, !.analysis = JNull,
                               !.inFlight = @ + 1]
    /\ UNCHANGED <<aiResponse, handler, response, env, requests, client, view, build>>

\* The fetch of a run settles and the run goes to its end.
AnalyzeSettles ==
    /\ app.inFlight > 0
    /\ \E o \in Outcomes :
             app' = [app EXCEPT
                 !.inFlight = @ - 1,
                 !.analysis = IF o.error = "" THEN o.analysis
                              ELSE IF o.error = ParseErrorMessage THEN JNull ELSE @,
                 !.error = IF o.error = "" THEN @ ELSE o.error,
                 !.loading = LoadingAfter(o)]
    /\ UNCHANGED <<aiResponse, handler, response, env, requests, client, view, build>>

AlternativesValue == JArr(<<JObj("title" :> JStr("Flexible submission"))>>)

\* The Generate Alternatives button (disabled={alternativesLoading}):
\* the panel toggles, and generateAlternatives starts when none are at hand
\* and the panel was closed.
ToggleAlternatives ==
    /\ ResultsView /\ ~app.alternativesLoading
    /\ app' = IF app.alternatives = JNull /\ ~app.showAlternatives
              THEN [app EXCEPT !.showAlternatives = TRUE, !.alternativesLoading = TRUE,
                               !.altInFlight = @ + 1]
              ELSE [app EXCEPT !.showAlternatives = ~@]
    /\ UNCHANGED <<aiResponse, handler, response, env, requests, client, view, build>>

\* generateAlternatives after its fetch: the alternatives are set, or the
\* catch block sets the error message.
AlternativesSettle ==
    /\ app.altInFlight > 0
    /\ \E failed \in BOOLEAN :
         app' = [app EXCEPT
                 !.altInFlight = @ - 1,
                 !.alternatives = IF failed THEN @ ELSE AlternativesValue,
                 !.error = IF failed THEN "Failed to generate alternatives" ELSE @,
                 !.alternativesLoading = FALSE]
    /\ UNCHANGED <<aiResponse, handler, response, env, requests, client, view, build>>

ToggleChat ==
    /\ ResultsView
    /\ app' = [app EXCEPT !.showAIChat = ~@]
    /\ UNCHANGED <<aiResponse, handler, response, env, requests, client, view, build>>

ChatQuestions == {"Which barrier first?", "How to fix the deadline?"}

UserMessage(q) == [role |-> "user", content |-> q]

AssistantMessage(content) == [role |-> "assistant", content |-> content]

\* The chat input changes.
TypeChat(q) ==
    /\ ResultsView /\ app.showAIChat
    /\ app.chatInput # q
    /\ app' = [app EXCEPT !.chatInput = q]
    /\ UNCHANGED <<aiResponse, handler, response, env, requests, client, view, build>>

\* The chat history a pending run writes from: the chatMessages of the
\* render in which the run started.
ChatBase(run) == run.base

\* Enter in the chat input (the send button alone is disabled while
\* chatLoading): sendChatMessage up to its await of fetch.
SendChat ==
    /\ ResultsView /\ app.showAIChat
    /\ app.chatInput # ""
    /\ Len(app.chatSent) < MaxSends
    /\ LET userMessage == UserMessage(app.chatInput)
       IN  app' = [app EXCEPT
                 !.chatMessages = Append(@, userMessage),
                 !.chatInput = "",
                 !.chatLoading = TRUE,
                 !.chatRuns = Append(@, [base |-> app.chatMessages, user |-> userMessage]),
                 !.chatSent = Append(@, userMessage)]
    /\ UNCHANGED <<aiResponse, handler, response, env, requests, client, view, build>>

\* The fetch of a pending sendChatMessage run settles: the run writes the
\* history it closed over, its message and the reply, and resets chatLoading.
ChatSettles(i) ==
    /\ i \in 1..Len(app.chatRuns)
    /\ \E content \in {"Start with the deadline.",
                       "Sorry, I encountered an error. Please try again."} :
         LET run == app.chatRuns[i]
         IN  app' = [app EXCEPT
                 !.chatMessages = ChatBase(run) \o <<run.user, AssistantMessage(content)>>,
                 !.chatLoading = FALSE,
                 !.chatRuns = SubSeq(@, 1, i - 1) \o SubSeq(@, i + 1, Len(@))]
    /\ UNCHANGED <<aiResponse, handler, response, env, requests, client, view, build>>

AppNext ==
    \/ \E t \in AssignmentInputs : EditText(t)
    \/ AnalyzeClick \/ AnalyzeSettles
    \/ ToggleAlternatives \/ AlternativesSettle
    \/ ToggleChat
    \/ \E q \in ChatQuestions : TypeChat(q)
    \/ SendChat
    \/ \E i \in 1..MaxSends : ChatSettles(i)

AppSpec == AppInit /\ [][AppNext]_vars

\* The analysis side of the App alone: text, Analyze button, alternatives.
AnalyzeNext ==
    \/ \E t \in AssignmentInputs : EditText(t)
    \/ AnalyzeClick \/ AnalyzeSettles
    \/ ToggleAlternatives \/ AlternativesSettle

\* A run of analyzeAssignment goes on when its fetch has settled: the browser
\* settles a fetch with the server's response or with a network error, and
\* the event loop then runs the continuation to the end of the finally block.
FairAppSpec == AppInit /\ [][AnalyzeNext]_vars /\ WF_vars(AnalyzeSettles)

C27_ErrorImpliesNoAnalysis ==
    (~app.loading /\ app.error # "") => app.analysis = JNull


\* C28: a run of analyzeAssignment whose trimmed assignment text is shorter
\* than 10 characters sends no request and changes nothing but the error
\* message: analysis, loading, chat history and alternatives are unchanged.
C28_ShortTextOnlySetsError ==
    [][(AnalyzeClick
        /\ (app.assignmentText = <<>> \/ CharLen(Trim(app.assignmentText)) < MinChars))
         => /\ app'.error = "Please enter an assignment description (minimum 10 characters)"
            /\ app' = [app EXCEPT !.error = app'.error]
            /\ app'.inFlight = app.inFlight
            /\ app'.analysis = app.analysis /\ app'.loading = app.loading
            /\ app'.chatMessages = app.chatMessages
            /\ app'.alternatives = app.alternatives]_vars

\* C28 witness: the Analyze button was clicked on a text padded with blanks
\* to ten characters and more, whose trimmed length is below ten; the error
\* message is set, the analysis of the earlier run is still there and no
\* request is in flight.
C28_Witness ==
    /\ app.error = "Please enter an assignment description (minimum 10 characters)"
    /\ CharLen(app.assignmentText) >= MinChars
    /\ CharLen(Trim(app.assignmentText)) < MinChars
    /\ app.analysis # JNull /\ ~app.loading /\ app.inFlight = 0

\* The history holds the sent questions in send order, each followed at once
\* by an assistant message.
HistoryComplete ==
    /\ Len(app.chatMessages) = 2 * Len(app.chatSent)
    /\ \A k \in 1..Len(app.chatSent) :
          /\ app.chatMessages[2 * k - 1] = app.chatSent[k]
          /\ app.chatMessages[2 * k].role = "assistant"

\* C29: the chat history loses no message: for any interleaving of
\* sendChatMessage runs, once every reply has arrived the history holds every
\* user message that was sent, each followed by its assistant reply or error
\* reply, in send order; and chatLoading is true as long as a reply is pending.
C29_ChatHistoryComplete ==
    /\ app.chatRuns = <<>> => HistoryComplete
    /\ app.chatRuns # <<>> => app.chatLoading

(***************************************************************************)
(* The build script: the methods loop around execSync.                     *)
(***************************************************************************)
methods == <<"npx vite build", "vite build", "./node_modules/.bin/vite build">>

\* What execSync does with a command: it returns when the command exits
\* with status 0, and throws when the command is not found, exits with
\* another status or is killed by a signal.
ExecOutcomes == {"ok", "notFound", "buildError", "killed"}

\* A loop that goes on after a build that succeeded.
EndsScriptNever(outcome) == FALSE

\* process.exit(0) after the execSync that returned.
EndsScript(outcome) == outcome = "ok"

BuildInit ==
    /\ aiResponse = <<>>
    /\ handler = "none"
    /\ response = NoResponse
    /\ env = {}
    /\ requests = <<>>
    /\ client = NoClient
    /\ view = NoView
    /\ app = NoApp
    /\ build \in {[NoBuild EXCEPT !.outcomes = o] : o \in [1..Len(methods) -> ExecOutcomes]}

\* One turn of the loop: execSync(method), then process.exit(0), or the
\* catch block and the next method.
TryMethod ==
    /\ ~build.exited /\ build.index <= Len(methods)
    /\ build' = IF EndsScript(build.outcomes[build.index])
                THEN [build EXCEPT !.tried = Append(@, methods[build.index]),
                                   !.exited = TRUE, !.exitCode = 0]
                ELSE [build EXCEPT !.tried = Append(@, methods[build.index]),
                                   !.index = @ + 1]
    /\ UNCHANGED <<aiResponse, handler, response, env, requests, client, view, app>>

\* After the loop: console.error('All build methods failed'); process.exit(1)
AllMethodsFailed ==
    /\ ~build.exited /\ build.index > Len(methods)
    /\ build' = [build EXCEPT !.exited = TRUE, !.exitCode = 1]
    /\ UNCHANGED <<aiResponse, handler, response, env, requests, client, view, app>>

BuildNext == TryMethod \/ AllMethodsFailed

BuildSpec == BuildInit /\ [][BuildNext]_vars

\* C30: the build script tries its methods in the listed order, stops at the
\* first that succeeds and exits with code 0 without trying the later ones,
\* and exits with code 1 only after every method has failed.
C30_FirstSuccessEndsBuild ==
    LET n == Len(build.tried)
    IN  /\ n <= Len(methods)
        /\ \A i \in 1..n : build.tried[i] = methods[i]
        /\ \A i \in 1..(n - 1) : build.outcomes[i] # "ok"
        /\ (n >= 1 /\ build.outcomes[n] = "ok") => (build.exited /\ build.exitCode = 0)
        /\ (build.exited /\ build.exitCode = 0) => (n >= 1 /\ build.outcomes[n] = "ok")
        /\ (build.exited /\ build.exitCode # 0) =>
              /\ build.exitCode = 1
              /\ build.tried = methods
              /\ \A i \in 1..Len(methods) : build.outcomes[i] # "ok"

\* C30 witness: the first method failed, the second succeeded, the script
\* exited with code 0 and the third method was not tried.
C30_Witness ==
    /\ build.exited /\ build.exitCode = 0
    /\ build.tried = <<"npx vite build", "vite build">>
    /\ build.outcomes[1] # "ok" /\ build.outcomes[3] = "ok"

====
